---- MODULE Spec2Model ----
(***************************************************************************)
(* Model of src/cross_section.py: the atom parameter tables (AtomFactory), *)
(* the calculator constructors (CrossSectionCalc.__init__ and subclasses), *)
(* the oscillator-strength evaluation and the BED / BEB total cross        *)
(* sections.                                                               *)
(*                                                                         *)
(* Floating-point numbers are modelled as binary floating-point values of  *)
(* reduced precision: m * 2^e with a signed mantissa of Prec bits, plus    *)
(* inf, -inf and nan, which numpy produces (with a RuntimeWarning, not an  *)
(* exception) on division by zero and on the logarithm of a non-positive   *)
(* number.  Multiplication by two is exact, as in IEEE arithmetic.         *)
(***************************************************************************)
EXTENDS Integers, Sequences, FiniteSets, TLC

(* ------------------------------------------------------------------ *)
(* Bounds of the model                                                *)
(* ------------------------------------------------------------------ *)
Prec == 14

(* ------------------------------------------------------------------ *)
(* Call by value.  Python evaluates an argument or an assignment's    *)
(* right-hand side once; Val1 and Val2 do the same for an expression  *)
(* that an operator uses more than once.                              *)
(* ------------------------------------------------------------------ *)
Val1(x, F(_)) == CHOOSE r \in {F(a) : a \in {x}} : TRUE
Val2(x, y, F(_, _)) == CHOOSE r \in {F(a, b) : a \in {x}, b \in {y}} : TRUE

(* ------------------------------------------------------------------ *)
(* Reduced-precision binary floating point                            *)
(* ------------------------------------------------------------------ *)
Abs(i) == IF i < 0 THEN -i ELSE i
Sgn(i) == IF i < 0 THEN -1 ELSE IF i = 0 THEN 0 ELSE 1

\* the number of bits of a, 0 <= a < 2^31, by bisection
BitLen1(a) == IF a >= 1 THEN 1 ELSE 0
BitLen2(a) == IF a >= 2 THEN 1 + BitLen1(a \div 2) ELSE BitLen1(a)
BitLen4(a) == IF a >= 4 THEN 2 + BitLen2(a \div 4) ELSE BitLen2(a)
BitLen8(a) == IF a >= 16 THEN 4 + BitLen4(a \div 16) ELSE BitLen4(a)
BitLen16(a) == IF a >= 256 THEN 8 + BitLen8(a \div 256) ELSE BitLen8(a)
BitLen(a) == IF a >= 65536 THEN 16 + BitLen16(a \div 65536) ELSE BitLen16(a)

Fin(m, e) == [k |-> "fin", m |-> m, e |-> e]
Zero == Fin(0, 0)
NaN == [k |-> "nan", m |-> 0, e |-> 0]
Inf(s) == [k |-> "inf", m |-> s, e |-> 0]

IsFin(x) == x.k = "fin"
IsNaN(x) == x.k = "nan"

\* the float with a mantissa of exactly Prec bits nearest to m * 2^e towards zero
NormV(m, e) ==
    IF m = 0 THEN Zero
    ELSE Val1(BitLen(Abs(m)), LAMBDA n :
            IF n > Prec
            THEN Fin(Sgn(m) * (Abs(m) \div (2 ^ (n - Prec))), e + (n - Prec))
            ELSE Fin(m * (2 ^ (Prec - n)), e - (Prec - n)))

Norm(m, e) == Val2(m, e, NormV)

FromInt(i) == Norm(i, 0)

Neg(x) == Val1(x, LAMBDA a : [a EXCEPT !.m = -a.m])

MulV(x, y) ==
    IF IsNaN(x) \/ IsNaN(y) THEN NaN
    ELSE IF IsFin(x) /\ IsFin(y) THEN NormV(x.m * y.m, x.e + y.e)
    ELSE IF x.m = 0 \/ y.m = 0 THEN NaN
    ELSE Inf(Sgn(x.m) * Sgn(y.m))

Mul(x, y) == Val2(x, y, MulV)

\* numpy division: x / 0 is inf or nan (a RuntimeWarning, no exception)
DivV(x, y) ==
    IF IsNaN(x) \/ IsNaN(y) THEN NaN
    ELSE IF IsFin(x) /\ IsFin(y)
         THEN IF y.m = 0
              THEN (IF x.m = 0 THEN NaN ELSE Inf(Sgn(x.m)))
              ELSE IF x.m = 0 THEN Zero
              ELSE Norm(Sgn(x.m) * Sgn(y.m) * ((Abs(x.m) * (2 ^ Prec)) \div Abs(y.m)),
                        x.e - y.e - Prec)
    ELSE IF IsFin(x) THEN Zero
    ELSE IF IsFin(y) THEN Inf(Sgn(x.m) * (IF y.m < 0 THEN -1 ELSE 1))
    ELSE NaN

Div(x, y) == Val2(x, y, DivV)

\* hi.e >= lo.e, both finite and non-zero
AddAligned(hi, lo) ==
    IF hi.e - lo.e > Prec THEN hi
    ELSE Norm(hi.m * (2 ^ (hi.e - lo.e)) + lo.m, lo.e)

AddV(x, y) ==
    IF IsNaN(x) \/ IsNaN(y) THEN NaN
    ELSE IF IsFin(x) /\ IsFin(y)
         THEN IF x.m = 0 THEN y
              ELSE IF y.m = 0 THEN x
              ELSE IF x.e >= y.e THEN AddAligned(x, y) ELSE AddAligned(y, x)
    ELSE IF IsFin(x) THEN y
    ELSE IF IsFin(y) THEN x
    ELSE IF x.m = y.m THEN x ELSE NaN

Add(x, y) == Val2(x, y, AddV)

Sub(x, y) == Add(x, Neg(y))

\* x < y; every comparison with nan is false
LtV(x, y) ==
    IF IsNaN(x) \/ IsNaN(y) THEN FALSE
    ELSE IF IsFin(x) /\ IsFin(y) THEN Sub(x, y).m < 0
    ELSE IF IsFin(x) THEN y.m > 0
    ELSE IF IsFin(y) THEN x.m < 0
    ELSE x.m < y.m

Lt(x, y) == Val2(x, y, LtV)

Le(x, y) == Val2(x, y, LAMBDA a, b : LtV(a, b) \/ (~IsNaN(a) /\ a = b))

AbsF(x) == Val1(x, LAMBDA a : IF a.m < 0 THEN [a EXCEPT !.m = -a.m] ELSE a)
MaxF(x, y) == Val2(x, y, LAMBDA a, b : IF LtV(a, b) THEN b ELSE a)

\* the decimal literal n * 10^(-k)
Dec(n, k) ==
    IF k <= 9 THEN Div(FromInt(n), FromInt(10 ^ k))
    ELSE Div(Div(FromInt(n), FromInt(10 ^ 9)), FromInt(10 ^ (k - 9)))

One == FromInt(1)
Two == FromInt(2)

Ln2 == Dec(693147181, 9)

\* 2 * (z + z^3/3 + z^5/5 + z^7/7 + z^9/9), the series of ln((1+z)/(1-z))
AtanhSeriesV(z, z2) ==
    Mul(Two, Mul(z,
        Add(One, Mul(z2,
            Add(Div(One, FromInt(3)), Mul(z2,
                Add(Div(One, FromInt(5)), Mul(z2,
                    Add(Div(One, FromInt(7)), Mul(z2, Div(One, FromInt(9))))))))))))

AtanhSeries(z) == Val1(z, LAMBDA v : Val1(MulV(v, v), LAMBDA z2 : AtanhSeriesV(v, z2)))

\* x = f * 2^n with f in [1, 2)
LnFin(x) ==
    Add(Mul(FromInt(x.e + Prec - 1), Ln2),
        AtanhSeries(Div(Sub(Fin(x.m, 1 - Prec), One), Add(Fin(x.m, 1 - Prec), One))))

\* np.log: -inf at 0 and nan below 0 (a RuntimeWarning, no exception)
LnV(x) ==
    IF IsNaN(x) THEN NaN
    ELSE IF ~IsFin(x) THEN (IF x.m > 0 THEN x ELSE NaN)
    ELSE IF x.m = 0 THEN Inf(-1)
    ELSE IF x.m < 0 THEN NaN
    ELSE LnFin(x)

Ln(x) == Val1(x, LnV)

(* ------------------------------------------------------------------ *)
(* numpy arrays: a 1-D array is a sequence; the coefficient arrays     *)
(* carry their number of dimensions, which np.dot depends on          *)
(* ------------------------------------------------------------------ *)
Array1(xs) == [ndim |-> 1, data |-> xs]
Array2(rows) == [ndim |-> 2, data |-> rows]
Array0(x) == [ndim |-> 0, data |-> x]

Shape(a) ==
    IF a.ndim = 0 THEN << >>
    ELSE IF a.ndim = 1 THEN <<Len(a.data)>>
    ELSE <<Len(a.data), Len(a.data[1])>>

Size(a) ==
    IF a.ndim = 0 THEN 1
    ELSE IF a.ndim = 1 THEN Len(a.data)
    ELSE Len(a.data) * Len(a.data[1])

\* the inner product of two 1-D arrays, from entry i on
RECURSIVE DotRow(_, _, _)
DotRow(row, q, i) ==
    IF i > Len(row) THEN Zero
    ELSE IF i = Len(row) THEN Mul(row[i], q[i])
    ELSE Add(Mul(row[i], q[i]), DotRow(row, q, i + 1))

RECURSIVE DotRows(_, _, _)
DotRows(rows, q, r) ==
    IF r > Len(rows) THEN << >>
    ELSE <<DotRow(rows[r], q, 1)>> \o DotRows(rows, q, r + 1)

\* np.dot(a, q) for a 1-D q: a scalar for a 1-D a, one entry per row for a 2-D a
DotV(a, q) ==
    IF a.ndim = 1 THEN Array0(DotRow(a.data, q, 1))
    ELSE Array1(DotRows(a.data, q, 1))

Dot(a, q) == Val2(a, q, DotV)

\* np.reshape(a, (n)) of a 0-D or 1-D array: the n entries, or ValueError
ReshapeV(a, n) ==
    IF Size(a) # n THEN "ValueError"
    ELSE IF a.ndim = 0 THEN <<a.data>>
    ELSE a.data

Reshape(a, n) == Val2(a, n, ReshapeV)

(* ------------------------------------------------------------------ *)
(* Atom and AtomFactory                                               *)
(* ------------------------------------------------------------------ *)
Atom(Z, B, N, Ni, Mi, ai_below, ai_above, U_bed) ==
    [Z |-> Z, B |-> B, N |-> N, Ni |-> Ni, Mi |-> Mi,
     ai_below |-> ai_below, ai_above |-> ai_above, U_bed |-> U_bed]

get_hydrogen ==
    LET ai == Array1(<<Zero, Dec(-22473, 6), Dec(11775, 4), Dec(-46264, 5),
                       Dec(89064, 6), Zero, Zero>>)
    IN  Atom(FromInt(1), <<Dec(136057, 4)>>, <<1>>, <<Dec(4343, 4)>>,
             <<Dec(2834, 4)>>, ai, ai, <<Dec(136057, 4)>>)

get_h2 ==
    LET ai == Array1(<<Zero, Zero, Dec(11262, 4), Dec(63982, 4),
                       Dec(-78055, 4), Dec(2144, 3), Zero>>)
    IN  Atom(FromInt(2), <<Dec(1543, 2)>>, <<2>>, <<Dec(1173, 3)>>,
             <<Dec(68, 2)>>, ai, ai, <<Dec(2568, 2)>>)

\* get_helium with the trailing zero coefficient left out of the list
get_helium_six_coefficients ==
    LET ai == Array1(<<Zero, Zero, Dec(12178, 3), Dec(-29585, 3),
                       Dec(31251, 3), Dec(-12175, 3)>>)
    IN  Atom(FromInt(2), <<Dec(2459, 2)>>, <<2>>, <<Dec(1605, 3)>>,
             <<Dec(489, 3)>>, ai, ai, <<Dec(3951, 2)>>)

get_helium ==
    LET ai == Array1(<<Zero, Zero, Dec(12178, 3), Dec(-29585, 3),
                       Dec(31251, 3), Dec(-12175, 3), Zero>>)
    IN  Atom(FromInt(2), <<Dec(2459, 2)>>, <<2>>, <<Dec(1605, 3)>>,
             <<Dec(489, 3)>>, ai, ai, <<Dec(3951, 2)>>)

get_neon ==
    LET row2 == <<Zero, Dec(17769, 4), Dec(28135, 4), Dec(-3151, 2),
                  Dec(63469, 3), Dec(-52528, 3), Dec(15982, 3)>>
        row3 == <<Zero, Zero, Dec(52475, 4), Dec(-28121, 4), Zero, Zero, Zero>>
        below == Array2(<<
            <<Dec(48791, 4), Dec(-2882, 3), Dec(-74711, 5), Zero, Zero, Zero, Zero>>,
            row2, row3>>)
        above == Array2(<<
            <<Zero, Dec(-58514, 4), Dec(3293, 1), Dec(-16788, 1),
              Dec(32985, 1), Dec(-2325, 0), Zero>>,
            row2, row3>>)
    IN  Atom(FromInt(10), <<Dec(217, 1), Dec(4847, 2), Dec(8669, 1)>>,
             <<6, 2, 2>>,
             <<Dec(6963, 3), Dec(7056, 4), Dec(1686, 3)>>,
             <<Dec(1552, 3), Dec(48, 3), Dec(1642, 5)>>,
             below, above,
             <<Dec(11602, 2), Dec(14188, 2), Dec(12591, 1)>>)

\* the static methods of class AtomFactory
AtomFactory ==
    [hydrogen |-> get_hydrogen, h2 |-> get_h2,
     helium |-> get_helium, neon |-> get_neon]

\* a lookup that falls back to neon, the constructors' default
GetAtomOrNeon(species) ==
    [status |-> "ok",
     atom |-> IF species \in DOMAIN AtomFactory
              THEN AtomFactory[species] ELSE get_neon]

\* AtomFactory.get_<species>(): attribute lookup on the class, then the call
GetAtom(species) ==
    IF species \in DOMAIN AtomFactory
    THEN [status |-> "ok", atom |-> AtomFactory[species]]
    ELSE [status |-> "AttributeError"]


(* ------------------------------------------------------------------ *)
(* class CrossSectionCalc                                             *)
(* Shell indices are 1-based here and 0-based in the source.          *)
(* ------------------------------------------------------------------ *)
a_0 == Dec(529, 11)             \* Bohr radius in cm
R == Dec(136, 1)                \* Rydberg constant in eV
Pi == Dec(314159265, 8)         \* np.pi
Threshold2s == Dec(4847, 2)     \* the literal 48.47

RECURSIVE DivEach(_, _, _)
DivEach(T, B, i) ==
    IF i > Len(B) THEN << >> ELSE <<Div(T, B[i])>> \o DivEach(T, B, i + 1)

RECURSIVE DivArr(_, _, _)
DivArr(xs, ys, i) ==
    IF i > Len(xs) THEN << >> ELSE <<Div(xs[i], ys[i])>> \o DivArr(xs, ys, i + 1)

\* (self.t - 1) / 2
RECURSIVE WMax(_, _)
WMax(t, i) ==
    IF i > Len(t) THEN << >> ELSE <<Div(Sub(t[i], One), Two)>> \o WMax(t, i + 1)

\* CrossSectionCalc.__init__(self, T, atom): atom is a reference (an index
\* of the heap), at is the object it points to
CrossSectionCalc_init(cls, T, atom, at) ==
    Val1(DivEach(T, at.B, 1), LAMBDA t :
        [cls |-> cls,
         atom |-> atom,
         T |-> T,
         t |-> t,
         w_max |-> WMax(t, 1),
         u |-> DivArr(at.U_bed, at.B, 1)])

\* CrossSectionCalcBed.__init__
CrossSectionCalcBed_init(T, atom, at) ==
    CrossSectionCalc_init("CrossSectionCalcBed", T, atom, at)

\* CrossSectionCalcBeb.__init__: the base constructor, then self.Q = 1. / 2
CrossSectionCalcBeb_init(T, atom, at) ==
    Val1(CrossSectionCalc_init("CrossSectionCalcBeb", T, atom, at), LAMBDA self :
        [f \in DOMAIN self \cup {"Q"} |-> IF f = "Q" THEN Div(One, Two) ELSE self[f]])

(* ------------------------------------------------------------------ *)
(* CrossSectionCalcBed.calculate_modified_oscillator_strength         *)
(* ------------------------------------------------------------------ *)
\* threshold <= (48.47)
SelectsBelowInclusive(at, w, n_shell) ==
    Le(Mul(Add(w, One), at.B[n_shell]), Threshold2s)

\* threshold < (48.47)
SelectsBelow(at, w, n_shell) ==
    Lt(Mul(Add(w, One), at.B[n_shell]), Threshold2s)

coefficient_matrix(at, w, n_shell) ==
    IF SelectsBelow(at, w, n_shell) THEN at.ai_below ELSE at.ai_above

\* 1 / x ** i for i = i .. 7, p being x ** i
RECURSIVE Quotients(_, _, _)
Quotients(x, p, i) ==
    IF i > 7 THEN << >>
    ELSE Val1(p, LAMBDA v : <<DivV(One, v)>> \o Quotients(x, MulV(x, v), i + 1))

\* [1 / (w + 1.0) ** i for i in range(1, 8)]
quotient(w) == Val1(Add(w, One), LAMBDA x : Quotients(x, x, 1))

OscStrV(at, w, n_shell) ==
    Mul(Div(One, Add(w, One)),
        Reshape(Dot(coefficient_matrix(at, w, n_shell), quotient(w)),
                Len(at.B))[n_shell])

calculate_modified_oscillator_strength(at, w, n_shell) ==
    Val1(w, LAMBDA v : OscStrV(at, v, n_shell))

(* ------------------------------------------------------------------ *)
(* scipy.integrate.quad(f, a, b, args=(n_shell)) on the integrand     *)
(* above: successive refinement of a quadrature rule until two        *)
(* estimates agree within the tolerance or the subdivision budget is  *)
(* spent.  quad returns (value, abserr) in both cases: when the       *)
(* budget is spent it issues an IntegrationWarning (ier > 0) and      *)
(* raises nothing.  The bounds are signed: b < a negates the result   *)
(* and a = b gives 0.                                                 *)
(* ------------------------------------------------------------------ *)
QuadLimit == 2

QuadTol == Div(One, FromInt(2 ^ (Prec \div 2)))

\* the sum of the integrand at the midpoints of panels i .. cnt - 1 of width h
RECURSIVE MidSum(_, _, _, _, _, _)
MidSum(at, n_shell, a, h, i, cnt) ==
    IF i = cnt - 1
    THEN calculate_modified_oscillator_strength(
             at, Add(a, Mul(Div(FromInt(2 * i + 1), Two), h)), n_shell)
    ELSE Add(calculate_modified_oscillator_strength(
                 at, Add(a, Mul(Div(FromInt(2 * i + 1), Two), h)), n_shell),
             MidSum(at, n_shell, a, h, i + 1, cnt))

QuadEstimate(at, n_shell, a, b, k) ==
    Val1(Div(Sub(b, a), FromInt(2 ^ k)), LAMBDA h :
        Mul(MidSum(at, n_shell, a, h, 0, 2 ^ k), h))

RECURSIVE QuadRefine(_, _, _, _, _, _)
QuadRefine(at, n_shell, a, b, k, prev) ==
    Val1(QuadEstimate(at, n_shell, a, b, k), LAMBDA cur :
        IF Le(AbsF(Sub(cur, prev)), MaxF(QuadTol, Mul(QuadTol, AbsF(cur))))
        THEN [val |-> cur, ier |-> 0]
        ELSE IF k >= QuadLimit THEN [val |-> cur, ier |-> 1]
        ELSE QuadRefine(at, n_shell, a, b, k + 1, cur))

quad(at, n_shell, a, b) ==
    Val2(a, b, LAMBDA lo, hi :
        Val1(QuadEstimate(at, n_shell, lo, hi, 0), LAMBDA est :
            QuadRefine(at, n_shell, lo, hi, 1, est)))

(* ------------------------------------------------------------------ *)
(* CrossSectionCalcBed.calculate / bethe_asymptotic / Mi_calculation  *)
(* ------------------------------------------------------------------ *)
RECURSIVE SumFrom(_, _)
SumFrom(xs, i) == IF i > Len(xs) THEN Zero ELSE Add(xs[i], SumFrom(xs, i + 1))

\* np.sum of a short 1-D array
NpSum(xs) == Val1(xs, LAMBDA v : SumFrom(v, 1))

\* S with N[n_shell] squared along with R / B[n_shell]
S_factor_N_squared(at, n_shell) ==
    Val1(Div(R, at.B[n_shell]), LAMBDA rb :
        Mul(Mul(Mul(Mul(FromInt(4), Pi), Mul(a_0, a_0)),
                FromInt(at.N[n_shell] * at.N[n_shell])),
            MulV(rb, rb)))

\* S = 4 * pi * a_0**2 * N[n_shell] * (R / B[n_shell])**2
S_factor(at, n_shell) ==
    Val1(Div(R, at.B[n_shell]), LAMBDA rb :
        Mul(Mul(Mul(Mul(FromInt(4), Pi), Mul(a_0, a_0)), FromInt(at.N[n_shell])),
            MulV(rb, rb)))

\* S / (self.t[n_shell] + u + 1.0)
Factor(self, at, n_shell) ==
    Div(S_factor(at, n_shell),
        Add(Add(self.t[n_shell], Div(at.U_bed[n_shell], at.B[n_shell])), One))

\* (t - 1.0) / t - np.log(t) / (t + 1.)
sub_factor1_2(t) ==
    Sub(Div(Sub(t, One), t), Div(Ln(t), Add(t, One)))

\* 2.0 - (Ni / N) times sub_factor1_2
BedSummand1(self, at, n_shell) ==
    Mul(Sub(Two, Div(at.Ni[n_shell], FromInt(at.N[n_shell]))),
        sub_factor1_2(self.t[n_shell]))

\* the loop body integrating up to self.t[n_shell] instead of self.w_max[n_shell]
BedShellUpToT(self, at, n_shell) ==
    Val1(quad(at, n_shell, Zero, self.t[n_shell]), LAMBDA q :
        [integral |-> q.val,
         ier |-> q.ier,
         value |-> Mul(Add(Mul(q.val, Div(Ln(self.t[n_shell]),
                                          FromInt(at.N[n_shell]))),
                           BedSummand1(self, at, n_shell)),
                       Factor(self, at, n_shell))])

\* one pass of the loop body of CrossSectionCalcBed.calculate: the final
\* integrated_cross_sec_subshells[n_shell], with the integral and quad's status
BedShell(self, at, n_shell) ==
    Val1(quad(at, n_shell, Zero, self.w_max[n_shell]), LAMBDA q :
        [integral |-> q.val,
         ier |-> q.ier,
         value |-> Mul(Add(Mul(q.val, Div(Ln(self.t[n_shell]),
                                          FromInt(at.N[n_shell]))),
                           BedSummand1(self, at, n_shell)),
                       Factor(self, at, n_shell))])

\* the loop over range(len(self.w_max))
RECURSIVE BedShells(_, _, _)
BedShells(self, at, n_shell) ==
    IF n_shell > Len(self.w_max) THEN << >>
    ELSE <<BedShell(self, at, n_shell)>> \o BedShells(self, at, n_shell + 1)

RECURSIVE Field(_, _, _)
Field(recs, f, i) ==
    IF i > Len(recs) THEN << >> ELSE <<recs[i][f]>> \o Field(recs, f, i + 1)

BedResult(shells) ==
    [value |-> NpSum(Field(shells, "value", 1)),
     subshells |-> Field(shells, "value", 1),
     integrals |-> Field(shells, "integral", 1),
     warned |-> {n \in 1..Len(shells) : shells[n].ier # 0}]

BedCalculate(self, at) == Val1(BedShells(self, at, 1), BedResult)

\* one pass of the loop body of bethe_asymptotic
BetheShell(self, at, n_shell) ==
    Div(Mul(Div(Mul(S_factor(at, n_shell),
                    Div(Mul(Mul(Two, at.B[n_shell]), at.Mi[n_shell]),
                        Mul(FromInt(at.N[n_shell]), R))),
                Two),
            Ln(self.t[n_shell])),
        self.t[n_shell])

RECURSIVE BetheShells(_, _, _)
BetheShells(self, at, n_shell) ==
    IF n_shell > Len(self.w_max) THEN << >>
    ELSE <<BetheShell(self, at, n_shell)>> \o BetheShells(self, at, n_shell + 1)

bethe_asymptotic(self, at) ==
    Mul(FromInt(10000), NpSum(BetheShells(self, at, 1)))

Mi_calculation(at, lower_boundary, upper_boundary, n_shell) ==
    Val1(quad(at, n_shell, lower_boundary, upper_boundary), LAMBDA q :
        [value |-> Mul(q.val, Div(R, at.B[n_shell])),
         warned |-> IF q.ier # 0 THEN {n_shell} ELSE {}])

(* ------------------------------------------------------------------ *)
(* CrossSectionCalcBeb.calculate                                      *)
(* ------------------------------------------------------------------ *)
\* summand1 = self.Q / 2 * ((1. - 1. / t ** 2) * np.log(t))
BebSummand1(self, t) ==
    Mul(Div(self.Q, Two), Mul(Sub(One, Div(One, Mul(t, t))), Ln(t)))

\* summand2 = (2.0 - self.Q) * sub_factor2_2
BebSummand2(self, t) == Mul(Sub(Two, self.Q), sub_factor1_2(t))

BebShell(self, at, n_shell) ==
    Mul(Add(Zero, Add(BebSummand1(self, self.t[n_shell]),
                      BebSummand2(self, self.t[n_shell]))),
        Factor(self, at, n_shell))

RECURSIVE BebShells(_, _, _)
BebShells(self, at, n_shell) ==
    IF n_shell > Len(self.w_max) THEN << >>
    ELSE <<BebShell(self, at, n_shell)>> \o BebShells(self, at, n_shell + 1)

BebResult(subshells) ==
    [value |-> NpSum(subshells),
     subshells |-> subshells,
     integrals |-> << >>,
     warned |-> {}]

BebCalculate(self, at) == Val1(BebShells(self, at, 1), BebResult)

(* ------------------------------------------------------------------ *)
(* The program as a state machine: a client session that asks the     *)
(* factory for an atom, constructs a calculator and calls its methods.*)
(*   atoms  the Atom objects alive, by reference (index).  The first  *)
(*          two are the objects the default arguments                 *)
(*          atom=AtomFactory.get_neon() of CrossSectionCalcBed and    *)
(*          CrossSectionCalcBeb were bound to when the module was     *)
(*          loaded; the third is the one the client holds.  The       *)
(*          client holds one atom at a time: it asks for another once *)
(*          no calculator refers to the one it has.                   *)
(*   calc   the client's calculator (NoCalc before the first one)     *)
(*   first  what the first calculate() of calc returned               *)
(*   ret    the outcome of the last call                              *)
(* The relativistic class CrossSectionCalcBebvm and the bare base     *)
(* class, which have no calculation method, are not modelled.         *)
(* ------------------------------------------------------------------ *)
VARIABLES atoms, calc, first, ret

vars == <<atoms, calc, first, ret>>

Classes == {"CrossSectionCalcBed", "CrossSectionCalcBeb"}

\* the reference held by the default argument of each __init__
DefaultAtom(cls) == IF cls = "CrossSectionCalcBed" THEN 1 ELSE 2
NumDefaults == Cardinality(Classes)
ClientAtom == NumDefaults + 1

NoCalc == [cls |-> "none"]
NoValue == [k |-> "none"]

\* inputs of the session
SpeciesRequests == {"hydrogen", "h2", "helium", "neon", "argon"}
Energies == {Zero, Dec(217, 1), FromInt(3810)}
OscPoints == {Zero, One, FromInt(3)}
MiBounds == {<<Zero, Dec(125, 3)>>}

Init ==
    /\ atoms = <<get_neon, get_neon>>
    /\ calc = NoCalc
    /\ first = NoValue
    /\ ret = [op |-> "import"]

\* a = AtomFactory.get_<species>()
Get(species) ==
    \E r \in {GetAtom(species)} :
        IF r.status = "ok"
        THEN /\ ~(calc.cls \in Classes /\ calc.atom = ClientAtom)
             /\ atoms' = SubSeq(atoms, 1, NumDefaults) \o <<r.atom>>
             /\ ret' = [op |-> "get", species |-> species, status |-> "ok",
                        atom |-> ClientAtom]
             /\ UNCHANGED <<calc, first>>
        ELSE /\ ret' = [op |-> "get", species |-> species, status |-> r.status]
             /\ UNCHANGED <<atoms, calc, first>>

\* the constructor call cls(T) (arg = 0: the default atom) or cls(T, atom=arg)
Construct(cls, T, arg) ==
    IF cls = "CrossSectionCalcBed"
    THEN CrossSectionCalcBed_init(T, IF arg = 0 THEN DefaultAtom(cls) ELSE arg,
                                  atoms[IF arg = 0 THEN DefaultAtom(cls) ELSE arg])
    ELSE CrossSectionCalcBeb_init(T, IF arg = 0 THEN DefaultAtom(cls) ELSE arg,
                                  atoms[IF arg = 0 THEN DefaultAtom(cls) ELSE arg])

New(cls, T, arg) ==
    /\ calc' = Construct(cls, T, arg)
    /\ first' = NoValue
    /\ ret' = [op |-> "new", cls |-> cls, T |-> T, arg |-> arg, status |-> "ok"]
    /\ UNCHANGED atoms

\* calculate() accumulating into self.w_max instead of a fresh np.zeros array
CalculateInPlace ==
    /\ calc.cls \in Classes
    /\ \E res \in {IF calc.cls = "CrossSectionCalcBed"
                   THEN BedCalculate(calc, atoms[calc.atom])
                   ELSE BebCalculate(calc, atoms[calc.atom])} :
           /\ ret' = [op |-> "calculate", status |-> "ok", res |-> res,
                      again |-> (first # NoValue)]
           /\ first' = IF first = NoValue THEN res.value ELSE first
           /\ calc' = [calc EXCEPT !.w_max = res.subshells]
    /\ UNCHANGED atoms

\* calc.calculate()
Calculate ==
    /\ calc.cls \in Classes
    /\ \E res \in {IF calc.cls = "CrossSectionCalcBed"
                   THEN BedCalculate(calc, atoms[calc.atom])
                   ELSE BebCalculate(calc, atoms[calc.atom])} :
           /\ ret' = [op |-> "calculate", status |-> "ok", res |-> res,
                      again |-> (first # NoValue)]
           /\ first' = IF first = NoValue THEN res.value ELSE first
    /\ UNCHANGED <<atoms, calc>>

\* calc.bethe_asymptotic()
BetheAsymptotic ==
    /\ calc.cls = "CrossSectionCalcBed"
    /\ ret' = [op |-> "bethe_asymptotic", status |-> "ok",
               value |-> bethe_asymptotic(calc, atoms[calc.atom])]
    /\ UNCHANGED <<atoms, calc, first>>

\* calc.Mi_calculation(lower_boundary, upper_boundary, n_shell)
MiCalculation(lower_boundary, upper_boundary, n_shell) ==
    /\ calc.cls = "CrossSectionCalcBed"
    /\ ret' = [op |-> "Mi_calculation", status |-> "ok", n_shell |-> n_shell,
               res |-> Mi_calculation(atoms[calc.atom], lower_boundary,
                                      upper_boundary, n_shell)]
    /\ UNCHANGED <<atoms, calc, first>>

\* calc.calculate_modified_oscillator_strength(w, n_shell)
OscillatorStrength(w, n_shell) ==
    /\ calc.cls = "CrossSectionCalcBed"
    /\ ret' = [op |-> "oscillator_strength", status |-> "ok",
               w |-> w, n_shell |-> n_shell,
               below |-> SelectsBelow(atoms[calc.atom], w, n_shell),
               value |-> calculate_modified_oscillator_strength(
                             atoms[calc.atom], w, n_shell)]
    /\ UNCHANGED <<atoms, calc, first>>

\* the valid shell indices of the client's calculator
Shells == IF calc.cls \in Classes THEN 1..Len(calc.w_max) ELSE {}

Next ==
    \/ \E species \in SpeciesRequests : Get(species)
    \/ \E cls \in Classes, T \in Energies, arg \in {0} \cup (ClientAtom..Len(atoms)) :
          New(cls, T, arg)
    \/ Calculate
    \/ BetheAsymptotic
    \/ \E b \in MiBounds, n_shell \in Shells : MiCalculation(b[1], b[2], n_shell)
    \/ \E w \in OscPoints, n_shell \in Shells : OscillatorStrength(w, n_shell)

Spec == Init /\ [][Next]_vars


(* ------------------------------------------------------------------ *)
(* Claims                                                             *)
(* ------------------------------------------------------------------ *)
\* the Atom object of the client's calculator
At == atoms[calc.atom]

IsBedCalculate == ret.op = "calculate" /\ calc.cls = "CrossSectionCalcBed"
IsBebCalculate == ret.op = "calculate" /\ calc.cls = "CrossSectionCalcBeb"

\* the quantities of the specification, from T and the atom's parameters
SpecT(s) == Div(calc.T, At.B[s])
SpecWMax(s) == Div(Sub(SpecT(s), One), Two)
SpecU(s) == Div(At.U_bed[s], At.B[s])
SpecSFactor(s) ==
    Mul(Mul(Mul(Mul(FromInt(4), Pi), Mul(a_0, a_0)), FromInt(At.N[s])),
        Mul(Div(R, At.B[s]), Div(R, At.B[s])))
SpecFactor(s) == Div(SpecSFactor(s), Add(Add(SpecT(s), SpecU(s)), One))
SpecTermClosed(s) ==
    Mul(Sub(Two, Div(At.Ni[s], FromInt(At.N[s]))),
        Sub(Div(Sub(SpecT(s), One), SpecT(s)),
            Div(Ln(SpecT(s)), Add(SpecT(s), One))))

\* C1: in the BED calculate(), every shell s with w_max[s] = (T/B[s] - 1)/2 <= 0
\* has an integral term of 0 and so contributes factor * term_closed only, and
\* calculate() does not raise (stated for T > 0, the energies a calculator
\* is meant to exist for).
C1_SubThresholdIntegralIsZero ==
    (IsBedCalculate /\ Lt(Zero, calc.T)) =>
        /\ ret.status = "ok"
        /\ \A s \in Shells :
              Le(SpecWMax(s), Zero) =>
                  /\ ret.res.integrals[s] = Zero
                  /\ ret.res.subshells[s] = Mul(SpecTermClosed(s), SpecFactor(s))

\* C2: constructing a calculator with T <= 0 fails with InvalidEnergyError,
\* and with T > 0 it succeeds, also when T <= B[s] for some shell.
C2_NonPositiveEnergyIsRejected ==
    ret.op = "new" =>
        IF Le(ret.T, Zero)
        THEN ret.status = "InvalidEnergyError"
        ELSE ret.status = "ok" /\ calc.cls = ret.cls /\ calc.T = ret.T

Supported == {"hydrogen", "h2", "helium", "neon"}
SpecShellCount == [hydrogen |-> 1, h2 |-> 1, helium |-> 1, neon |-> 3]
SpecZ == [hydrogen |-> 1, h2 |-> 2, helium |-> 2, neon |-> 10]
AtomFields == {"Z", "B", "N", "Ni", "Mi", "ai_below", "ai_above", "U_bed"}

\* a request for a supported species returned the table of that species
ReturnedTable ==
    /\ ret.status = "ok"
    /\ DOMAIN atoms[ret.atom] = AtomFields
    /\ atoms[ret.atom].Z = FromInt(SpecZ[ret.species])
    /\ Len(atoms[ret.atom].B) = SpecShellCount[ret.species]

C4_NonConvergenceAborts ==
    (IsBedCalculate /\ \A s \in Shells : Lt(Zero, calc.w_max[s])) =>
        (ret.res.warned # {} =>
            ret.status = "IntegrationFailure" /\ "res" \notin DOMAIN ret)

\* the coefficients of one shell: a row of a 2-D array, or the 1-D array of a
\* single-shell species
RowOf(a, n) == IF a.ndim = 2 THEN a.data[n] ELSE a.data

OscThreshold == Mul(Add(ret.w, One), At.B[ret.n_shell])

\* C5: the oscillator-strength evaluation uses the coefficients
\* ai_below[shell] when (w+1)*B[shell] < 48.47 and ai_above[shell] otherwise,
\* ai_above when (w+1)*B[shell] is exactly 48.47, and no other shell's
\* coefficients.
C5_CoefficientRowSelection ==
    ret.op = "oscillator_strength" =>
        /\ ret.below = Lt(OscThreshold, Dec(4847, 2))
        /\ (OscThreshold = Dec(4847, 2) => ~ret.below)
        /\ ret.value =
              Mul(Div(One, Add(ret.w, One)),
                  DotRow(RowOf(IF Lt(OscThreshold, Dec(4847, 2))
                               THEN At.ai_below ELSE At.ai_above, ret.n_shell),
                         quotient(ret.w), 1))

C5_Witness ==
    /\ ret.op = "oscillator_strength"
    /\ OscThreshold = Dec(4847, 2)
    /\ ~ret.below
    /\ Len(At.B) > 1

Positive(xs) == \A i \in 1..Len(xs) : Lt(Zero, xs[i])

\* B, N, Ni, Mi and U_bed have one entry per shell, energies are positive
LengthsAndEnergies(at) ==
    /\ Len(at.N) = Len(at.B)
    /\ Len(at.Ni) = Len(at.B)
    /\ Len(at.Mi) = Len(at.B)
    /\ Len(at.U_bed) = Len(at.B)
    /\ Positive(at.B)
    /\ Positive(at.U_bed)

\* C6 as stated: every Atom of the catalog has B, N, Ni, Mi, U_bed of length S,
\* ai_below and ai_above two-dimensional S x 7 (also when S = 1), and positive
\* B and U_bed.
C6_ShapeTwoDimensional ==
    \A i \in DOMAIN atoms :
        /\ LengthsAndEnergies(atoms[i])
        /\ atoms[i].ai_below.ndim = 2
        /\ atoms[i].ai_above.ndim = 2
        /\ Shape(atoms[i].ai_below) = <<Len(atoms[i].B), 7>>
        /\ Shape(atoms[i].ai_above) = <<Len(atoms[i].B), 7>>

\* C6 as amended: every Atom of the catalog has B, N, Ni, Mi, U_bed of length S
\* and positive B and U_bed; ai_below and ai_above are two-dimensional S x 7
\* for neon (S = 3) and one-dimensional, of length 7, for the single-shell
\* species hydrogen, h2 and helium.
C6_ShapeSevenPerShell ==
    \A i \in DOMAIN atoms :
        /\ LengthsAndEnergies(atoms[i])
        /\ Shape(atoms[i].ai_below) =
              IF Len(atoms[i].B) = 1 THEN <<7>> ELSE <<Len(atoms[i].B), 7>>
        /\ Shape(atoms[i].ai_above) = Shape(atoms[i].ai_below)

C6_Witness ==
    /\ ret.op = "get"
    /\ ret.status = "ok"
    /\ Len(atoms[ret.atom].B) = 1
    /\ atoms[ret.atom].ai_below.ndim = 1

CallOps == {"calculate", "bethe_asymptotic", "Mi_calculation", "oscillator_strength"}

\* C7: a call of calculate(), bethe_asymptotic(), Mi_calculation() or the
\* oscillator-strength evaluation leaves every Atom and the calculator's
\* T, t, w_max, u unchanged, and a repeated calculate() returns what the first
\* one returned.
C7_CallsLeaveStateUnchanged ==
    [][ret'.op \in CallOps =>
          /\ atoms' = atoms
          /\ calc' = calc
          /\ ((ret'.op = "calculate" /\ first # NoValue) => ret'.res.value = first)]_vars

C7_Witness ==
    /\ ret.op = "calculate"
    /\ ret.again
    /\ ret.res.value = first
    /\ IsFin(first)

\* the Atom with N[s] doubled, everything else copied
DoubledN(at, s) == [at EXCEPT !.N[s] = 2 * @]

\* the shell contributions of a BEB calculator for the same T on that copy
DoubledSubshells(s) ==
    BebCalculate(CrossSectionCalcBeb_init(calc.T, calc.atom, DoubledN(At, s)),
                 DoubledN(At, s)).subshells

\* C8: in the BEB calculate(), doubling N[shell] in a copied Atom doubles that
\* shell's contribution exactly and leaves the other shells' contributions
\* unchanged (for T > 0).
C8_BebLinearInN ==
    (IsBebCalculate /\ Lt(Zero, calc.T)) =>
        \A s \in Shells : \E d \in {DoubledSubshells(s)} :
            \A o \in Shells :
                d[o] = IF o = s THEN Mul(Two, ret.res.subshells[o])
                       ELSE ret.res.subshells[o]

C8_Witness ==
    /\ IsBebCalculate
    /\ Lt(Zero, calc.T)
    /\ Len(calc.w_max) > 1
    /\ \A s \in Shells : IsFin(ret.res.subshells[s]) /\ ret.res.subshells[s].m # 0

\* factor * (term_closed + term_integral * ln(t) / N), the integral taken from
\* 0 to w_max
SpecBedTerm(s) ==
    Mul(Add(Mul(quad(At, s, Zero, SpecWMax(s)).val,
                Div(Ln(SpecT(s)), FromInt(At.N[s]))),
            SpecTermClosed(s)),
        SpecFactor(s))

RECURSIVE SpecBedTerms(_)
SpecBedTerms(s) ==
    IF s > Len(At.B) THEN << >> ELSE <<SpecBedTerm(s)>> \o SpecBedTerms(s + 1)

\* C9: the BED calculate() returns the sum over all shells of
\* factor[s] * (term_closed[s] + term_integral[s] * ln(t[s]) / N[s]), the
\* integral of shell s taken from 0 to w_max[s] = (t[s] - 1)/2.
C9_BedTotalIsSumOfShellTerms ==
    IsBedCalculate =>
        \E terms \in {SpecBedTerms(1)} :
            /\ ret.res.subshells = terms
            /\ ret.res.value = NpSum(terms)

C9_Witness ==
    /\ IsBedCalculate
    /\ Len(calc.w_max) = 3
    /\ \A s \in Shells : Lt(Zero, calc.w_max[s]) /\ ret.res.integrals[s].m > 0
    /\ IsFin(ret.res.value) /\ ret.res.value.m > 0

\* C10: two calculators constructed without an explicit atom never share one
\* default Atom object.
C10_DefaultAtomNeverShared ==
    [][(/\ ret.op = "new" /\ ret.arg = 0
        /\ ret'.op = "new" /\ ret'.arg = 0
        /\ calc' # calc) => calc'.atom # calc.atom]_vars

====
